---- MODULE Spec2Model ----
(***************************************************************************)
(* The task service of src/api/tasks.rs and src/actions.rs: four routes    *)
(* (GET /tasks, GET /task/{id}, POST /task, DELETE /tasks/{id}) over one   *)
(* table `tasks`, each handler checking a connection out of the shared     *)
(* r2d2 pool and running one Diesel statement.                             *)
(*                                                                         *)
(* Text (a path segment, a task id) is a sequence of one-character         *)
(* strings; a Uuid is its 32 hexadecimal digits, a sequence over 0..15.    *)
(***************************************************************************)
EXTENDS Integers, Sequences, FiniteSets, TLC

\* ------------------------------------------------------------------ bounds

\* Requests in flight at once (the slots of the HTTP server).
Workers == 2

\* Requests received in one behaviour.
MaxRequests == 3

\* Connections of the pool: r2d2's Builder default max_size, which
\* initialize_db_pool leaves unchanged.
max_size == 10

Slots == 1..Workers

\* --------------------------------------------------------------- uuid text

LowerHex == <<"0","1","2","3","4","5","6","7","8","9","a","b","c","d","e","f">>
UpperHex == <<"0","1","2","3","4","5","6","7","8","9","A","B","C","D","E","F">>

IsHex(c) == \E n \in 1..16 : LowerHex[n] = c \/ UpperHex[n] = c

HexVal(c) == (CHOOSE n \in 1..16 : LowerHex[n] = c \/ UpperHex[n] = c) - 1

\* The positions of the hyphens in the 36-character hyphenated form.
HyphenAt == {9, 14, 19, 24}

\* The hexadecimal characters of a hyphenated text, hyphens dropped.
Unhyphen(s) == SelectSeq(s, LAMBDA c : c # "-")

IsHyphenated(s) ==
    /\ Len(s) = 36
    /\ \A i \in 1..36 : IF i \in HyphenAt THEN s[i] = "-" ELSE IsHex(s[i])

IsSimple(s) == Len(s) = 32 /\ \A i \in 1..32 : IsHex(s[i])

IsBraced(s) ==
    /\ Len(s) = 38
    /\ s[1] = "{"
    /\ s[38] = "}"
    /\ IsHyphenated(SubSeq(s, 2, 37))

UrnPrefix == <<"u","r","n",":","u","u","i","d",":">>

IsUrn(s) ==
    /\ Len(s) = 45
    /\ SubSeq(s, 1, 9) = UrnPrefix
    /\ IsHyphenated(SubSeq(s, 10, 45))

Digits(s) == SubSeq([i \in 1..Len(s) |-> HexVal(s[i])], 1, Len(s))

NoUuid == <<>>

\* A parser that falls back to Uuid::nil() on text that is no uuid.
parse_str_lenient(s) ==
    IF IsHyphenated(s) THEN [ok |-> TRUE, uuid |-> Digits(Unhyphen(s))]
    ELSE IF IsSimple(s) THEN [ok |-> TRUE, uuid |-> Digits(s)]
    ELSE [ok |-> TRUE, uuid |-> SubSeq([i \in 1..32 |-> 0], 1, 32)]

\* Uuid::from_str, as web::Path<Uuid> and serde apply it to the path segment:
\* the hyphenated, simple, braced and URN forms, letters of either case.
parse_str(s) ==
    IF IsHyphenated(s) THEN [ok |-> TRUE, uuid |-> Digits(Unhyphen(s))]
    ELSE IF IsSimple(s) THEN [ok |-> TRUE, uuid |-> Digits(s)]
    ELSE IF IsBraced(s) THEN [ok |-> TRUE, uuid |-> Digits(Unhyphen(SubSeq(s, 2, 37)))]
    ELSE IF IsUrn(s) THEN [ok |-> TRUE, uuid |-> Digits(Unhyphen(SubSeq(s, 10, 45)))]
    ELSE [ok |-> FALSE, uuid |-> NoUuid]

\* The digit of the uuid that position i of the hyphenated form shows.
DigitIndex(i) == i - Cardinality({h \in HyphenAt : h < i})

\* Uuid's Display (uid.to_string()): lower-case digits, hyphenated.
to_string(u) ==
    SubSeq([i \in 1..36 |->
               IF i \in HyphenAt THEN "-" ELSE LowerHex[u[DigitIndex(i)] + 1]], 1, 36)

\* The simple form in upper case: 32 digits, no hyphens.
SimpleText(u) == SubSeq([i \in 1..32 |-> UpperHex[u[i] + 1]], 1, 32)

\* Uuid::nil()
nil == SubSeq([i \in 1..32 |-> 0], 1, 32)

\* A version-4 uuid whose random digits are all k (digit 13 is the version,
\* digit 17 carries the variant).
V4(k) == SubSeq([i \in 1..32 |-> IF i = 13 THEN 4 ELSE IF i = 17 THEN 8 ELSE k], 1, 32)

\* The values Uuid::new_v4() draws from in the model.
GenIds == {V4(10), V4(11)}

\* The path segments requests carry: the test's "123", Uuid::nil(), an id as
\* a create returns it, and another spelling of a generated id.
PathTexts ==
    { <<"1","2","3">>,
      to_string(nil),
      to_string(V4(10)),
      SimpleText(V4(11)) }

\* The JSON bodies of POST /task.
NewTasks ==
    { [name |-> "Test task", done |-> FALSE],
      [name |-> "Buy milk", done |-> TRUE] }

\* ------------------------------------------------------------ the database

\* A row of the table `tasks` (model::task::Task): id, name, done.
Task(i, nm, dn) == [id |-> i, name |-> nm, done |-> dn]

Ids(tbl) == {tbl[i].id : i \in 1..Len(tbl)}

Rows(tbl) == {tbl[i] : i \in 1..Len(tbl)}

\* A table `tasks` declared without its primary key.
NoPrimaryKey(tbl, row) == FALSE

\* The primary key of `tasks` is the column id: an INSERT of a row whose id
\* a stored row already has is refused by the storage engine.
PrimaryKeyViolation(tbl, row) == row.id \in Ids(tbl)

\* The list query written with .first() in place of .load().
find_all_tasks_first(tbl) == IF tbl = <<>> THEN <<>> ELSE <<Head(tbl)>>

\* tasks.load::<Task>(conn): every row, in the table's order.
find_all_tasks(tbl) == tbl

\* The lookup written with id.ne in place of id.eq.
find_task_by_uid_ne(tbl, uid) ==
    LET hits == SelectSeq(tbl, LAMBDA r : r.id # to_string(uid))
    IN  IF hits = <<>> THEN <<>> ELSE <<Head(hits)>>

\* tasks.filter(id.eq(uid.to_string())).first::<Task>(conn).optional():
\* the first row whose id is the uuid's text, or none.
find_task_by_uid(tbl, uid) ==
    LET hits == SelectSeq(tbl, LAMBDA r : r.id = to_string(uid))
    IN  IF hits = <<>> THEN <<>> ELSE <<Head(hits)>>

\* The insert of the earlier revision, which took no `done` and stored false.
insert_new_task_undone(tbl, g, nm, dn) ==
    LET new_task == Task(to_string(g), nm, FALSE)
    IN  IF PrimaryKeyViolation(tbl, new_task)
        THEN [ok |-> FALSE, table |-> tbl, task |-> new_task]
        ELSE [ok |-> TRUE, table |-> Append(tbl, new_task), task |-> new_task]

\* insert_into(tasks).values(&new_task).execute(conn)?, new_task built from
\* the fresh uuid g (the value Uuid::new_v4() returned), nm and dn.
insert_new_task(tbl, g, nm, dn) ==
    LET new_task == Task(to_string(g), nm, dn)
    IN  IF PrimaryKeyViolation(tbl, new_task)
        THEN [ok |-> FALSE, table |-> tbl, task |-> new_task]
        ELSE [ok |-> TRUE, table |-> Append(tbl, new_task), task |-> new_task]

\* The delete written without its filter: delete(tasks).
destroy_task_all(tbl, uid) == [table |-> <<>>, deleted |-> Len(tbl)]

\* The delete written with .first-like reach: only a row at the head of the
\* table is matched against the uuid.
destroy_task_head(tbl, uid) ==
    IF tbl # <<>> /\ Head(tbl).id = to_string(uid)
    THEN [table |-> Tail(tbl), deleted |-> 1]
    ELSE [table |-> tbl, deleted |-> 0]

\* delete(tasks.filter(id.eq(uid.to_string()))).execute(conn): the rows left
\* and the number of rows deleted.
destroy_task(tbl, uid) ==
    LET left == SelectSeq(tbl, LAMBDA r : r.id # to_string(uid))
    IN  [table |-> left, deleted |-> Len(tbl) - Len(left)]

\* ------------------------------------------------------------ the responses

NoTaskFoundPrefix == <<"N","o"," ","t","a","s","k"," ","f","o","u","n","d"," ","w","i","t","h"," ","U","I","D",":"," ">>
UuidParsingFailed == <<"U","U","I","D"," ","p","a","r","s","i","n","g"," ","f","a","i","l","e","d">>
Deleted == <<"d","e","l","e","t","e","d">>
PoolTimedOut == <<"t","i","m","e","d"," ","o","u","t"," ","w","a","i","t","i","n","g"," ","f","o","r"," ","c","o","n","n","e","c","t","i","o","n">>
UniqueViolation == <<"U","N","I","Q","U","E"," ","c","o","n","s","t","r","a","i","n","t"," ","f","a","i","l","e","d",":"," ","t","a","s","k","s",".","i","d">>
DatabaseLocked == <<"d","a","t","a","b","a","s","e"," ","i","s"," ","l","o","c","k","e","d">>

\* A response: the status, and the body as JSON rows (kind "task": one row,
\* "tasks": a list), as a JSON Response{message} (kind "message") or as text.
Resp(st, k, rs, tx) == [status |-> st, kind |-> k, rows |-> rs, text |-> tx]

NoResp == Resp(0, "none", <<>>, <<>>)

\* error::ErrorInternalServerError(err): 500, the error's text as the body.
ErrorInternalServerError(err) == Resp(500, "text", <<>>, err)

\* The Path<Uuid> extractor's rejection: 404, the deserializer's message.
PathRejected == Resp(404, "text", <<>>, UuidParsingFailed)

\* get_all_tasks: Ok(HttpResponse::Ok().json(tasks))
get_all_tasks_ok(rows) == Resp(200, "tasks", rows, <<>>)

NoUserFoundPrefix == <<"N","o"," ","u","s","e","r"," ","f","o","u","n","d"," ","w","i","t","h"," ","U","I","D",":"," ">>

\* The response of the earlier revision, whose text named a user.
get_task_ok_user(found, task_uid) ==
    IF found # <<>>
    THEN Resp(200, "task", found, <<>>)
    ELSE Resp(404, "text", <<>>, NoUserFoundPrefix \o to_string(task_uid))

\* get_task: Some(task) => 200 with the task, None => 404 with the text.
get_task_ok(found, task_uid) ==
    IF found # <<>>
    THEN Resp(200, "task", found, <<>>)
    ELSE Resp(404, "text", <<>>, NoTaskFoundPrefix \o to_string(task_uid))

\* add_task: Ok(HttpResponse::Created().json(task))
add_task_ok(task) == Resp(201, "task", <<task>>, <<>>)

\* A delete that reports a row count of zero as a missing task.
delete_task_ok_strict(rows_deleted) ==
    IF rows_deleted = 0
    THEN Resp(404, "text", <<>>, <<>>)
    ELSE Resp(200, "message", <<>>, <<"d","e","l","e","t","e","d">>)

\* delete_task: every arm of its match is Ok(web::Json(Response{message})),
\* a 200: "deleted" whatever the row count, the error's text on an error.
delete_task_ok(rows_deleted) == Resp(200, "message", <<>>, Deleted)

delete_task_err(err) == Resp(200, "message", <<>>, err)

\* What a handler answers when pool.get() or its statement fails with err.
handler_err(op, err) ==
    IF op = "delete_task" THEN delete_task_err(err) ELSE ErrorInternalServerError(err)

\* ---------------------------------------------------------------- the state

VARIABLES
    tasks,   \* the table `tasks`: a sequence of rows
    pool,    \* idle connections of the pool
    req,     \* per slot: the request in flight
    last,    \* the request answered last, with its response
    nreq,    \* requests received so far
    live,    \* the tasks created and not deleted since (history)
    faults   \* whether pool checkouts and statements may fail

vars == <<tasks, pool, req, last, nreq, live, faults>>

NoForm == [name |-> "", done |-> FALSE]

Idle ==
    [pc |-> "idle", op |-> "none", path |-> <<>>, uid |-> NoUuid, form |-> NoForm,
     resp |-> NoResp, failed |-> FALSE, held |-> FALSE]

\* A request past extraction, its handler about to run.
Routed(o, p, u, f) ==
    [pc |-> "handler", op |-> o, path |-> p, uid |-> u, form |-> f,
     resp |-> NoResp, failed |-> FALSE, held |-> FALSE]

\* A request answered with r; failed: a checkout or statement error.
Answered(q, r, bad) == [q EXCEPT !.pc = "done", !.resp = r, !.failed = bad]

FaultChoices == IF faults THEN BOOLEAN ELSE {FALSE}

\* The uuid a stored id spells (ids are stored hyphenated).
UuidOf(id) == Digits(Unhyphen(id))

\* The history after the answered request q: a create answered 201 adds the
\* task it returned, under the name and flag it was asked for; a delete
\* answered "deleted" removes the tasks of its uuid.
Track(lv, q) ==
    IF q.op = "add_task" /\ q.resp.status = 201
    THEN lv \cup {Task(q.resp.rows[1].id, q.form.name, q.form.done)}
    ELSE IF q.op = "delete_task" /\ q.resp.status = 200 /\ q.resp.text = Deleted
    THEN {t \in lv : UuidOf(t.id) # q.uid}
    ELSE lv

InitCommon ==
    /\ tasks = <<>>
    /\ pool = max_size
    /\ req = [w \in Slots |-> Idle]
    /\ last = Idle
    /\ nreq = 0
    /\ live = {}

Init == InitCommon /\ faults = FALSE

InitFaults == InitCommon /\ faults = TRUE

\* Slot w takes the next request: the lowest idle slot (slots are alike).
Free(w) ==
    /\ req[w].pc = "idle"
    /\ \A v \in Slots : v < w => req[v].pc # "idle"
    /\ nreq < MaxRequests

\* The request of slot w is answered with r and leaves the slot.
Answer(w, r, bad) ==
    /\ last' = Answered(req[w], r, bad)
    /\ req' = [req EXCEPT ![w] = Idle]

\* GET /tasks arrives.
route_get_all_tasks(w) ==
    /\ Free(w)
    /\ req' = [req EXCEPT ![w] = Routed("get_all_tasks", <<>>, NoUuid, NoForm)]
    /\ nreq' = nreq + 1
    /\ UNCHANGED <<tasks, pool, last, live, faults>>

\* A request with a {task_id} segment arrives: Path<Uuid> parses the segment,
\* and rejects the request before the handler when it is no uuid.
route_with_uuid(w, o, p) ==
    /\ Free(w)
    /\ IF parse_str(p).ok
       THEN /\ req' = [req EXCEPT ![w] = Routed(o, p, parse_str(p).uuid, NoForm)]
            /\ last' = last
       ELSE /\ last' = Answered(Routed(o, p, NoUuid, NoForm), PathRejected, FALSE)
            /\ req' = req
    /\ nreq' = nreq + 1
    /\ UNCHANGED <<tasks, pool, live, faults>>

\* GET /task/{task_id} arrives.
route_get_task(w) == \E p \in PathTexts : route_with_uuid(w, "get_task", p)

\* DELETE /tasks/{task_id} arrives.
route_delete_task(w) == \E p \in PathTexts : route_with_uuid(w, "delete_task", p)

\* POST /task arrives with a JSON NewTask.
route_add_task(w) ==
    /\ Free(w)
    /\ \E f \in NewTasks :
          req' = [req EXCEPT ![w] = Routed("add_task", <<>>, NoUuid, f)]
    /\ nreq' = nreq + 1
    /\ UNCHANGED <<tasks, pool, last, live, faults>>

\* pool.get(): a connection is checked out, or the checkout fails (a timeout,
\* an unreachable database) and the handler answers with the error.
pool_get(w) ==
    /\ req[w].pc = "handler"
    /\ \E fault \in FaultChoices :
          IF fault
          THEN /\ Answer(w, handler_err(req[w].op, PoolTimedOut), TRUE)
               /\ pool' = pool
          ELSE /\ pool > 0
               /\ req' = [req EXCEPT ![w].pc = "conn", ![w].held = TRUE]
               /\ pool' = pool - 1
               /\ last' = last
    /\ UNCHANGED <<tasks, nreq, live, faults>>

\* The statement of the request of slot w fails (the database is locked, an
\* I/O error): nothing is written.
Fail(w) == Answer(w, handler_err(req[w].op, DatabaseLocked), TRUE)

\* get_all_tasks: find_all_tasks on the connection, then the response.
run_find_all_tasks(w) ==
    /\ req[w].pc = "conn"
    /\ req[w].op = "get_all_tasks"
    /\ \E fault \in FaultChoices :
          IF fault THEN Fail(w)
          ELSE Answer(w, get_all_tasks_ok(find_all_tasks(tasks)), FALSE)
    /\ pool' = pool + 1
    /\ UNCHANGED <<tasks, nreq, live, faults>>

\* get_task: find_task_by_uid on the connection, then the response.
run_find_task_by_uid(w) ==
    /\ req[w].pc = "conn"
    /\ req[w].op = "get_task"
    /\ \E fault \in FaultChoices :
          IF fault THEN Fail(w)
          ELSE Answer(w, get_task_ok(find_task_by_uid(tasks, req[w].uid), req[w].uid),
                      FALSE)
    /\ pool' = pool + 1
    /\ UNCHANGED <<tasks, nreq, live, faults>>

\* add_task: insert_new_task on the connection with a fresh uuid g, then the
\* response; a refused INSERT is an error like any other.
run_insert_new_task(w) ==
    /\ req[w].pc = "conn"
    /\ req[w].op = "add_task"
    /\ \E fault \in FaultChoices, g \in GenIds :
          LET r == insert_new_task(tasks, g, req[w].form.name, req[w].form.done)
          IN  IF fault
              THEN /\ Fail(w)
                   /\ tasks' = tasks
              ELSE IF r.ok
              THEN /\ Answer(w, add_task_ok(r.task), FALSE)
                   /\ tasks' = r.table
              ELSE /\ Answer(w, ErrorInternalServerError(UniqueViolation), TRUE)
                   /\ tasks' = tasks
    /\ live' = Track(live, last')
    /\ pool' = pool + 1
    /\ UNCHANGED <<nreq, faults>>

\* delete_task: destroy_task on the connection, then the response.
run_destroy_task(w) ==
    /\ req[w].pc = "conn"
    /\ req[w].op = "delete_task"
    /\ \E fault \in FaultChoices :
          LET r == destroy_task(tasks, req[w].uid)
          IN  IF fault
              THEN /\ Fail(w)
                   /\ tasks' = tasks
              ELSE /\ Answer(w, delete_task_ok(r.deleted), FALSE)
                   /\ tasks' = r.table
    /\ live' = Track(live, last')
    /\ pool' = pool + 1
    /\ UNCHANGED <<nreq, faults>>

Next ==
    \E w \in Slots :
        \/ route_get_all_tasks(w)
        \/ route_get_task(w)
        \/ route_add_task(w)
        \/ route_delete_task(w)
        \/ pool_get(w)
        \/ run_find_all_tasks(w)
        \/ run_find_task_by_uid(w)
        \/ run_insert_new_task(w)
        \/ run_destroy_task(w)

\* The service with a healthy database: checkouts and statements succeed.
Spec == Init /\ [][Next]_vars

\* The service when checkouts and statements may also fail.
SpecFaults == InitFaults /\ [][Next]_vars

TypeOK ==
    /\ pool \in 0..max_size
    /\ nreq \in 0..MaxRequests
    /\ \A w \in Slots : req[w].pc \in {"idle", "handler", "conn"}

\* ---------------------------------------------------------------- the claims

StartsWith(s, prefix) ==
    Len(s) >= Len(prefix) /\ SubSeq(s, 1, Len(prefix)) = prefix

NoTaskFound == <<"N","o"," ","t","a","s","k"," ","f","o","u","n","d">>

\* Text that is a uuid in one of the forms Uuid::from_str reads.
WellFormed(p) == IsHyphenated(p) \/ IsSimple(p) \/ IsBraced(p) \/ IsUrn(p)

NoDuplicates(rows) ==
    \A i, j \in 1..Len(rows) : rows[i].id = rows[j].id => i = j

\* The step in which the request of slot w, of route o, runs its statement
\* and is answered (the answer is last').
Runs(w, o) == req[w].pc = "conn" /\ req[w].op = o /\ req'[w].pc = "idle"

\* The rows of tbl whose id spells the uuid u.
RowsOf(tbl, u) == {r \in Rows(tbl) : UuidOf(r.id) = u}

\* C1: task identifiers are unique. No two rows of `tasks` ever have the same
\* id, and every create that succeeds stores its row under an id that no row
\* had before.
C1_UniqueIds ==
    /\ [](NoDuplicates(tasks))
    /\ [][\A w \in Slots :
            (Runs(w, "add_task") /\ last'.resp.status = 201)
                => /\ last'.resp.rows[1].id \notin Ids(tasks)
                   /\ last'.resp.rows[1].id \in Ids(tasks')]_vars

\* Two rows are stored and the last request was a create answered 201.
C1_Witness ==
    /\ Len(tasks) = 2
    /\ last.op = "add_task"
    /\ last.resp.status = 201

\* C2: create-then-read round trip. A GET /task/{id} for the id of a task that
\* was created with name n and not deleted since answers 200 with a task of
\* that id and name n, whatever happened to other ids in between.
C2_CreateThenRead ==
    [][\A w \in Slots :
         Runs(w, "get_task") =>
            \A t \in live :
               UuidOf(t.id) = req[w].uid
                  => /\ last'.resp.status = 200
                     /\ last'.resp.kind = "task"
                     /\ Len(last'.resp.rows) = 1
                     /\ last'.resp.rows[1].id = t.id
                     /\ last'.resp.rows[1].name = t.name]_vars

\* A GET by the id a create returned was answered 200 after three requests,
\* one of them on another id or route.
C2_Witness ==
    /\ last.op = "get_task"
    /\ last.resp.status = 200
    /\ last.path = last.resp.rows[1].id
    /\ nreq = 3

C4_BadUuidRejected ==
    /\ [](\A w \in Slots : req[w].op = "get_task" => WellFormed(req[w].path))
    /\ []((last.op = "get_task" /\ ~WellFormed(last.path))
            => /\ last.resp.status = 404
               /\ StartsWith(last.resp.text, UuidParsingFailed)
               /\ ~last.held)
    /\ [][(nreq' = nreq + 1 /\ last'.op = "get_task" /\ ~WellFormed(last'.path))
            => (pool' = pool /\ tasks' = tasks)]_vars

\* GET /task/123 was answered while the table held a row.
C4_Witness ==
    /\ last.op = "get_task"
    /\ last.path = <<"1","2","3">>
    /\ last.resp.status = 404
    /\ Len(tasks) = 1

\* C5: POST /task passes the fields through. A create that succeeds appends
\* exactly one row, with the name and done of the request, answers 201 with
\* that row, and leaves the rows that existed unchanged.
C5_CreatePassesFields ==
    [][\A w \in Slots :
         (Runs(w, "add_task") /\ last'.resp.status = 201)
            => /\ Len(tasks') = Len(tasks) + 1
               /\ SubSeq(tasks', 1, Len(tasks)) = tasks
               /\ tasks'[Len(tasks')].name = req[w].form.name
               /\ tasks'[Len(tasks')].done = req[w].form.done
               /\ IsHyphenated(tasks'[Len(tasks')].id)
               /\ last'.resp.kind = "task"
               /\ last'.resp.rows = <<tasks'[Len(tasks')]>>]_vars

\* A create with done = true was answered 201 and a row existed before it.
C5_Witness ==
    /\ last.op = "add_task"
    /\ last.resp.status = 201
    /\ last.form.done
    /\ Len(tasks) = 2
    /\ tasks[2] = last.resp.rows[1]

\* C6: on each of the four routes, a request whose pool checkout or statement
\* failed is answered with an internal error (500), never with a success.
C6_ErrorsAreInternal == last.failed => last.resp.status = 500

\* C7: GET /tasks returns exactly the live tasks. Its list holds every task
\* created and not deleted since, once each, with the stored id, name and
\* done, and no other; the call changes no row.
C7_ListIsLive ==
    [][\A w \in Slots :
         Runs(w, "get_all_tasks")
            => /\ tasks' = tasks
               /\ last'.resp.status = 200
                    => /\ last'.resp.kind = "tasks"
                       /\ Rows(last'.resp.rows) = live
                       /\ NoDuplicates(last'.resp.rows)
                       /\ Len(last'.resp.rows) = Cardinality(live)]_vars

\* A list was answered with two tasks.
C7_Witness ==
    /\ last.op = "get_all_tasks"
    /\ last.resp.status = 200
    /\ Len(last.resp.rows) = 2

\* C8: DELETE /tasks/{id} removes exactly the rows of that uuid and leaves
\* every other row as it was, in order; right after it, a lookup of the uuid
\* finds nothing (GET answers 404) and the list does not hold it.
C8_DeleteRemovesOne ==
    [][\A w \in Slots :
         (Runs(w, "delete_task") /\ last'.resp.text = Deleted)
            => /\ tasks' = SelectSeq(tasks, LAMBDA r : UuidOf(r.id) # req[w].uid)
               /\ get_task_ok(find_task_by_uid(tasks', req[w].uid), req[w].uid).status = 404
               /\ RowsOf(find_all_tasks(tasks'), req[w].uid) = {}]_vars

\* A delete of the second generated uuid was answered "deleted" and the row
\* of the first is still stored.
C8_Witness ==
    /\ last.op = "delete_task"
    /\ last.resp.text = Deleted
    /\ last.uid = V4(11)
    /\ nreq = 3
    /\ Len(tasks) = 1
    /\ UuidOf(tasks[1].id) = V4(10)

\* C9: requests are atomic with respect to one another. In every
\* interleaving, the table is the set of live tasks of the order in which the
\* statements ran (no created row is lost, none stored twice); only the
\* statement of a create or a delete changes the table; and every read is
\* answered from the live tasks at its statement: whole rows, never a part.
C9_Atomic ==
    /\ [](Rows(tasks) = live /\ Len(tasks) = Cardinality(live))
    /\ [][/\ tasks' # tasks
             => \E w \in Slots : Runs(w, "add_task") \/ Runs(w, "delete_task")
          /\ \A w \in Slots :
               /\ (Runs(w, "get_all_tasks") /\ ~last'.failed)
                     => Rows(last'.resp.rows) = live
               /\ (Runs(w, "get_task") /\ ~last'.failed)
                     => /\ Rows(last'.resp.rows) = {t \in live : UuidOf(t.id) = req[w].uid}
                        /\ last'.resp.status = IF last'.resp.rows = <<>> THEN 404 ELSE 200
               /\ (Runs(w, "add_task") /\ ~last'.failed)
                     => /\ last'.resp.status = 201
                        /\ Rows(tasks') = live \cup Rows(last'.resp.rows)
               /\ (Runs(w, "delete_task") /\ ~last'.failed)
                     => Rows(tasks') = {t \in live : UuidOf(t.id) # req[w].uid}
               /\ (Runs(w, req[w].op) /\ last'.failed) => tasks' = tasks]_vars

\* A create was answered 201 while another request held a connection.
C9_Witness ==
    /\ last.op = "add_task"
    /\ last.resp.status = 201
    /\ \E w \in Slots : req[w].pc = "conn" /\ req[w].op \in {"delete_task", "get_all_tasks"}

\* C10: DELETE /tasks/{id} is idempotent and does not report a missing task.
\* When no row has the uuid, destroy_task deletes zero rows, the answer is
\* still 200 with the message "deleted" and the table is unchanged; deleting
\* again what was just deleted leaves the table the same.
C10_DeleteIdempotent ==
    [][\A w \in Slots :
         Runs(w, "delete_task")
            => /\ RowsOf(tasks, req[w].uid) = {}
                    => /\ destroy_task(tasks, req[w].uid).deleted = 0
                       /\ last'.resp = Resp(200, "message", <<>>, Deleted)
                       /\ tasks' = tasks
               /\ destroy_task(tasks', req[w].uid).table = tasks']_vars

\* A delete of a generated uuid that no row has was answered "deleted" while
\* another row was stored.
C10_Witness ==
    /\ last.op = "delete_task"
    /\ last.resp.text = Deleted
    /\ last.uid = V4(10)
    /\ nreq = 3
    /\ Len(tasks) = 1
    /\ UuidOf(tasks[1].id) = V4(11)

====
